---- MODULE Spec2Model ----
(***************************************************************************)
(* Model of bot.py: the restaurant staff-review bot.                       *)
(*                                                                         *)
(* Strings that the code splits on "_" (callback tokens, category keys,    *)
(* staff ids) are modelled as the sequence of their "_"-separated parts:   *)
(* "staff_cold_kitchen_1" is <<"staff", "cold", "kitchen", "1">>.          *)
(* Ratings are kept in tenths (4.7 is 47).  Time is in whole hours.        *)
(* A session is keyed by the user (private chats: chat id = user id).      *)
(***************************************************************************)
EXTENDS Integers, Sequences, FiniteSets, TLC

VARIABLES
    staff_data,   \* the in-memory document (bot.py:90)
    key_order,    \* the iteration order of its dicts: the category keys, and each staff category's ids
    file,         \* the content of DATA_FILE on disk
    fsm,          \* MemoryStorage: per user, the FSM state and the data dict
    now,          \* datetime.now(), in hours
    last,         \* what the last handled update did (observation only)
    top,          \* the last result of get_top_staff (observation only)
    flow,         \* per user, the target the guard last accepted and the rating picked since (observation only)
    tasks         \* per user, the review_text handler in flight, when its awaits are steps of their own

vars == <<staff_data, key_order, file, fsm, now, last, top, flow, tasks>>

(***************************** bounds **************************************)
MaxTime == 25
\* the reviews the store may hold, in Spec and in SpecFlow
MaxReviews == 1
FlowMaxReviews == 3
\* the largest min_reviews and limit handed to get_top_staff in SpecTop
MaxMinReviews == 3
MaxLimit == 3
\* the days that pass and the reviews one record may hold in SpecAnn
MaxDays == 3
AnnMaxReviews == 4
\* the reviews the store may hold in SpecConc
ConcMaxReviews == 2

\* the users known to the bot, and the inputs of the one who acts
Users == {1, 2}
Active == {1}
Instants == {0, 12, 24, 25}
RatesPressed == {4, 5}
PlainTexts == {"hello"}

(***************************** CONFIG / CATEGORIES *************************)
Day == 24

Waiters == <<"waiters">>
Bartenders == <<"bartenders">>
ColdKitchen == <<"cold", "kitchen">>
HotKitchen == <<"hot", "kitchen">>
PastryKitchen == <<"pastry", "kitchen">>

\* the keys of the dict KITCHEN_CATEGORIES, in insertion order
KITCHEN_CATEGORIES == <<ColdKitchen, HotKitchen, PastryKitchen>>

\* the keys of the dict ALL_CATEGORIES, in insertion order
ALL_CATEGORIES == <<Waiters, Bartenders>> \o KITCHEN_CATEGORIES

Range(s) == {s[i] : i \in 1 .. Len(s)}

IsKitchen(category) == category \in Range(KITCHEN_CATEGORIES)

ReviewStates == {"rating", "text"}
NoState == "none"

(***************************** DATA ****************************************)
\* DATA_FILE: absent, a JSON document (with the order of its keys), or a
\* file that open(..., "w") truncated and json.dump did not finish
NoFile == [exists |-> FALSE, valid |-> FALSE]
Truncated == [exists |-> TRUE, valid |-> FALSE]

\* json.dump writes a rating as the digits of its repr ("4.7", "0"), and
\* json.load reads the digits back; the other values of the document are
\* strings, integers and lists, written and read as they are
\* a dump that writes the rating as a whole number
DumpNumberWhole(x) == [whole |-> x \div 10, tenth |-> 0]

DumpNumber(x) == [whole |-> x \div 10, tenth |-> x % 10]
LoadNumber(n) == 10 * n.whole + n.tenth

DumpObj(o) == IF "rating" \in DOMAIN o THEN [o EXCEPT !.rating = DumpNumber(o.rating)] ELSE o
LoadObj(o) == IF "rating" \in DOMAIN o THEN [o EXCEPT !.rating = LoadNumber(o.rating)] ELSE o

DumpDocument(doc) ==
    [k \in DOMAIN doc |->
        IF IsKitchen(k) THEN DumpObj(doc[k]) ELSE [id \in DOMAIN doc[k] |-> DumpObj(doc[k][id])]]

LoadDocument(text) ==
    [k \in DOMAIN text |->
        IF IsKitchen(k) THEN LoadObj(text[k]) ELSE [id \in DOMAIN text[k] |-> LoadObj(text[k][id])]]

FileOf(doc, order) ==
    [exists |-> TRUE, valid |-> TRUE, doc |-> DumpDocument(doc), order |-> order]

\* an assignment d[k] = v in the place of d.setdefault(k, v)
SetAlways(d, k, v) == [x \in DOMAIN d \cup {k} |-> IF x = k THEN v ELSE d[x]]

\* dict.setdefault(k, v) on a dict given as a function
SetDefault(d, k, v) ==
    IF k \in DOMAIN d THEN d
    ELSE [x \in DOMAIN d \cup {k} |-> IF x = k THEN v ELSE d[x]]

RECURSIVE BackFill(_, _)
BackFill(data, i) ==
    IF i > Len(ALL_CATEGORIES) THEN data
    ELSE LET k == ALL_CATEGORIES[i]
             d1 == SetDefault(data, k, << >>)
             d2 == IF IsKitchen(k)
                   THEN [d1 EXCEPT ![k] = SetDefault(SetDefault(d1[k], "rating", 0), "reviews", << >>)]
                   ELSE d1
         IN BackFill(d2, i + 1)

DefaultDocument ==
    [k \in Range(ALL_CATEGORIES) |->
        IF IsKitchen(k) THEN [rating |-> 0, reviews |-> << >>] ELSE << >>]

load_staff_data(f) ==
    IF ~f.exists THEN DefaultDocument ELSE BackFill(LoadDocument(f.doc), 1)

RECURSIVE AppendMissing(_, _, _)
AppendMissing(order, ks, i) ==
    IF i > Len(ks) THEN order
    ELSE AppendMissing(IF ks[i] \in Range(order) THEN order ELSE Append(order, ks[i]), ks, i + 1)

\* the iteration order of the loaded dicts: setdefault appends the missing keys
LoadedOrder(f) ==
    IF ~f.exists
    THEN [top |-> ALL_CATEGORIES, ids |-> [k \in {Waiters, Bartenders} |-> << >>]]
    ELSE [top |-> AppendMissing(f.order.top, ALL_CATEGORIES, 1),
          ids |-> [k \in {Waiters, Bartenders} |->
                      IF k \in DOMAIN f.order.ids THEN f.order.ids[k] ELSE << >>]]

(***************************** HELPERS *************************************)
\* round(j / 20, 1) in tenths exceeds j / 2 for these odd j: the ties whose
\* double is not exact (j not a multiple of 5) and lies above the tie
TiesRoundedUp == {1, 9, 11, 13, 21, 27, 31, 37, 47, 49, 57, 59, 67, 69, 77, 79, 83, 89, 93, 99}

\* a rounding that cuts the second decimal off
Round1Truncated(total, n) == (10 * total) \div n

\* a rounding that sends every tie upward
Round1HalfUp(total, n) == (20 * total + n) \div (2 * n)

\* round(total / n, 1), in tenths: the nearest tenth of the double total / n;
\* an exact tie (a multiple of 0.25) goes to the even tenth
Round1(total, n) ==
    LET q == (10 * total) \div n
        r == (10 * total) % n
        j == 2 * q + 1
    IN IF 2 * r < n THEN q
       ELSE IF 2 * r > n THEN q + 1
       ELSE IF j % 5 = 0 THEN (IF q % 2 = 0 THEN q ELSE q + 1)
       ELSE IF j \in TiesRoundedUp THEN q + 1 ELSE q

RECURSIVE SumRatings(_)
SumRatings(reviews) ==
    IF reviews = << >> THEN 0 ELSE Head(reviews).rating + SumRatings(Tail(reviews))

\* the loop with the comparison <= in place of <
RECURSIVE CanLeaveLoopInclusive(_, _, _, _)
CanLeaveLoopInclusive(reviews, user_id, t, i) ==
    IF i > Len(reviews) THEN TRUE
    ELSE IF reviews[i].user_id = user_id /\ t - reviews[i].date <= Day THEN FALSE
    ELSE CanLeaveLoopInclusive(reviews, user_id, t, i + 1)

\* can_leave_review: the loop over obj["reviews"], returning at the first
\* review of user_id that is less than a day old
RECURSIVE CanLeaveLoop(_, _, _, _)
CanLeaveLoop(reviews, user_id, t, i) ==
    IF i > Len(reviews) THEN TRUE
    ELSE IF reviews[i].user_id = user_id /\ t - reviews[i].date < Day THEN FALSE
    ELSE CanLeaveLoop(reviews, user_id, t, i + 1)

can_leave_review(obj, user_id, t) == CanLeaveLoop(obj.reviews, user_id, t, 1)

\* the stable descending sort of result.sort(key=rating, reverse=True):
\* x goes after every entry whose rating is at least its own
\* an insertion that puts an entry before the entries of equal rating
RECURSIVE InsertByRatingBeforeEqual(_, _)
InsertByRatingBeforeEqual(sorted, x) ==
    IF sorted = << >> THEN <<x>>
    ELSE IF Head(sorted).rating > x.rating
         THEN <<Head(sorted)>> \o InsertByRatingBeforeEqual(Tail(sorted), x)
         ELSE <<x>> \o sorted

RECURSIVE InsertByRating(_, _)
InsertByRating(sorted, x) ==
    IF sorted = << >> THEN <<x>>
    ELSE IF Head(sorted).rating >= x.rating
         THEN <<Head(sorted)>> \o InsertByRating(Tail(sorted), x)
         ELSE <<x>> \o sorted

RECURSIVE SortByRating(_, _)
SortByRating(result, i) ==
    IF i = 0 THEN << >> ELSE InsertByRating(SortByRating(result, i - 1), result[i])

\* the slice result[:limit]
SliceTo(result, limit) ==
    LET n == Len(result)
        stop == IF limit < 0 THEN (IF n + limit < 0 THEN 0 ELSE n + limit)
                ELSE IF limit > n THEN n ELSE limit
    IN SubSeq(result, 1, stop)

\* the inner loop of get_top_staff over staff_list.items()
RECURSIVE TopOfCategory(_, _, _, _, _)
TopOfCategory(data, order, category, min_reviews, i) ==
    IF i > Len(order.ids[category]) THEN << >>
    ELSE LET staff == data[category][order.ids[category][i]]
             rest == TopOfCategory(data, order, category, min_reviews, i + 1)
         IN IF staff.rating > 0 /\ Len(staff.reviews) >= min_reviews
            THEN <<[name |-> staff.name, rating |-> staff.rating,
                    reviews |-> Len(staff.reviews), category |-> category]>> \o rest
            ELSE rest

\* the outer loop of get_top_staff over staff_data.items()
RECURSIVE TopCandidates(_, _, _, _)
TopCandidates(data, order, min_reviews, i) ==
    IF i > Len(order.top) THEN << >>
    ELSE LET category == order.top[i]
             rest == TopCandidates(data, order, min_reviews, i + 1)
         IN IF IsKitchen(category) THEN rest
            ELSE TopOfCategory(data, order, category, min_reviews, 1) \o rest

get_top_staff(data, order, min_reviews, limit) ==
    LET result == TopCandidates(data, order, min_reviews, 1)
    IN SliceTo(SortByRating(result, Len(result)), limit)

DefaultMinReviews == 3
DefaultLimit == 10

\* get_photo_path: the record names a photo and the file exists
get_photo_path(data, category, staff_id) == data[category][staff_id].photo

(***************************** KEYBOARDS ***********************************)
Button(text, data) == [text |-> text, data |-> data]
Back == "back"

start_keyboard == <<Button("START", << >>)>>

main_menu ==
    <<Button("choose", <<"select", "category">>), Button("top", <<"top", "staff">>)>>

category_keyboard ==
    <<Button("waiters", <<"category">> \o Waiters),
      Button("kitchen", <<"select", "kitchen">>),
      Button("bar", <<"category">> \o Bartenders),
      Button(Back, <<"main", "menu">>)>>

\* kitchen_keyboard with the back button bound to its own screen
kitchen_keyboard_back_to_self ==
    [i \in 1 .. Len(KITCHEN_CATEGORIES) |->
        Button("workshop", <<"category">> \o KITCHEN_CATEGORIES[i])]
    \o <<Button(Back, <<"select", "kitchen">>)>>

kitchen_keyboard ==
    [i \in 1 .. Len(KITCHEN_CATEGORIES) |->
        Button("workshop", <<"category">> \o KITCHEN_CATEGORIES[i])]
    \o <<Button(Back, <<"select", "category">>)>>

staff_list_keyboard(data, order, category) ==
    [i \in 1 .. Len(order.ids[category]) |->
        Button(data[category][order.ids[category][i]].name,
               <<"staff">> \o category \o order.ids[category][i])]
    \o <<Button(Back, <<"select", "category">>)>>

staff_actions_keyboard(category, staff_id) ==
    <<Button("reviews", <<"reviews">> \o category \o staff_id),
      Button("review", <<"review">> \o category \o staff_id),
      Button(Back, <<"category">> \o category)>>

workshop_keyboard(category) ==
    <<Button("reviews", <<"reviews", "workshop">> \o category),
      Button("review", <<"review", "workshop">> \o category),
      Button(Back, <<"select", "kitchen">>)>>

top_keyboard == <<Button(Back, <<"select", "category">>)>>

reviews_keyboard(category, staff_id) ==
    <<Button(Back, <<"staff">> \o category \o staff_id)>>

rate_keyboard == [i \in 1 .. 5 |-> Button("star", <<"rate", ToString(i)>>)]

NoKeyboard == << >>

(***************************** TOKENS **************************************)
\* data.startswith(prefix + "_")
StartsWith(tok, prefix) ==
    Len(tok) > Len(prefix) /\ SubSeq(tok, 1, Len(prefix)) = prefix

\* data.replace(prefix + "_", ""): every occurrence is removed, left to right
\* (occurrences are found at part boundaries: no part of the alphabet used
\* here contains another)
RECURSIVE Replace(_, _)
Replace(tok, prefix) ==
    IF tok = << >> THEN << >>
    ELSE IF StartsWith(tok, prefix)
         THEN Replace(SubSeq(tok, Len(prefix) + 1, Len(tok)), prefix)
         ELSE <<Head(tok)>> \o Replace(Tail(tok), prefix)

\* "_".join(parts): the empty list joins to the empty string
Join(parts) == IF parts = << >> THEN <<"">> ELSE parts

\* parts = data.split("_"); staff_id = parts[-1]; category = "_".join(parts[1:-1])
ParseStaffId(tok) == <<tok[Len(tok)]>>
ParseCategory(tok) == Join(SubSeq(tok, 2, Len(tok) - 1))

\* int(data.replace("rate_", "")) for the digits the rate buttons carry
ParseRating(tok) ==
    LET d == Replace(tok, <<"rate">>)
    IN CHOOSE i \in 0 .. 9 : <<ToString(i)>> = d

HasCategory(data, category) == category \in DOMAIN data
HasWorkshop(data, category) == HasCategory(data, category) /\ IsKitchen(category)
HasStaff(data, category, staff_id) ==
    /\ HasCategory(data, category)
    /\ ~IsKitchen(category)
    /\ staff_id \in DOMAIN data[category]

\* the dispatch with review_rating registered without its state filter
CallbackHandlerAnyState(tok, state) ==
    IF tok = <<"main", "menu">> THEN "back_to_main_menu"
    ELSE IF tok = <<"top", "staff">> THEN "show_top_staff"
    ELSE IF tok = <<"select", "category">> THEN "select_category"
    ELSE IF tok = <<"select", "kitchen">> THEN "select_kitchen"
    ELSE IF StartsWith(tok, <<"category">>) THEN "show_category"
    ELSE IF StartsWith(tok, <<"staff">>) THEN "show_staff"
    ELSE IF StartsWith(tok, <<"reviews", "workshop">>) THEN "show_workshop_reviews"
    ELSE IF StartsWith(tok, <<"reviews">>) THEN "show_staff_reviews"
    ELSE IF StartsWith(tok, <<"review", "workshop">>) THEN "review_workshop_start"
    ELSE IF StartsWith(tok, <<"review">>) THEN "review_staff_start"
    ELSE IF StartsWith(tok, <<"rate">>) THEN "review_rating"
    ELSE "unhandled"

\* the handler a callback query is dispatched to: the first registered one
\* whose filter matches (bot.py:209-416, in registration order)
CallbackHandler(tok, state) ==
    IF tok = <<"main", "menu">> THEN "back_to_main_menu"
    ELSE IF tok = <<"top", "staff">> THEN "show_top_staff"
    ELSE IF tok = <<"select", "category">> THEN "select_category"
    ELSE IF tok = <<"select", "kitchen">> THEN "select_kitchen"
    ELSE IF StartsWith(tok, <<"category">>) THEN "show_category"
    ELSE IF StartsWith(tok, <<"staff">>) THEN "show_staff"
    ELSE IF StartsWith(tok, <<"reviews", "workshop">>) THEN "show_workshop_reviews"
    ELSE IF StartsWith(tok, <<"reviews">>) THEN "show_staff_reviews"
    ELSE IF StartsWith(tok, <<"review", "workshop">>) THEN "review_workshop_start"
    ELSE IF StartsWith(tok, <<"review">>) THEN "review_staff_start"
    ELSE IF state = "rating" /\ StartsWith(tok, <<"rate">>) THEN "review_rating"
    ELSE "unhandled"

\* the message texts a user sends: the /start command, the reply keyboard's
\* START button, and plain text
StartCommand == "/start"
StartButton == "START"
Texts == {StartCommand, StartButton} \cup PlainTexts

\* the handler a message is dispatched to (bot.py:226, 252, 425, 459)
MessageHandler(text, state) ==
    IF text = StartCommand THEN "start"
    ELSE IF text = StartButton THEN "start_pressed"
    ELSE IF state = "text" THEN "review_text"
    ELSE "fallback"

\* every token the keyboards emit for the document, and the rate buttons
ButtonData(kb) == {kb[i].data : i \in 1 .. Len(kb)}

StaffTargets(data) ==
    UNION {{<<c, id>> : id \in DOMAIN data[c]} : c \in {k \in DOMAIN data : ~IsKitchen(k)}}

Tokens(data, order) ==
    ButtonData(main_menu) \cup ButtonData(category_keyboard) \cup ButtonData(kitchen_keyboard)
    \cup ButtonData(top_keyboard) \cup ButtonData(rate_keyboard)
    \cup UNION {ButtonData(workshop_keyboard(c)) : c \in Range(KITCHEN_CATEGORIES)}
    \cup UNION {ButtonData(staff_list_keyboard(data, order, c)) : c \in {Waiters, Bartenders}}
    \cup UNION {ButtonData(staff_actions_keyboard(t[1], t[2])) \cup ButtonData(reviews_keyboard(t[1], t[2])) :
                  t \in StaffTargets(data)}

(***************************** RENDERING ***********************************)
Screen(kind, kb) == [kind |-> kind, kb |-> kb]
NoScreen == Screen("none", NoKeyboard)

\* how the handler put its screen on the chat
Edit == "edit_text"
DeleteSend == "delete+answer"
DeleteSendPhoto == "delete+answer_photo"
Send == "answer"
Alert == "alert"
NoRender == "none"

\* smart_edit: a message with a photo is replaced, any other is edited in place
\* smart_edit without the look at cb.message.photo
smart_edit_always(photo) == Edit

smart_edit(photo) == IF photo THEN DeleteSend ELSE Edit

\* cb.message.photo, for the messages that carry the button tok: show_staff
\* sends staff_actions_keyboard on a photo message exactly when the staff
\* record has a photo; its back button is also on category_keyboard and
\* kitchen_keyboard, which are on text messages
PhotoOptions(data, tok) ==
    LET withPhoto == {x \in StaffTargets(data) : get_photo_path(data, x[1], x[2])}
        without == StaffTargets(data) \ withPhoto
        OnActions(ts) == \E x \in ts : tok \in ButtonData(staff_actions_keyboard(x[1], x[2]))
        elsewhere ==
            \/ tok \in ButtonData(main_menu) \cup ButtonData(category_keyboard)
                       \cup ButtonData(kitchen_keyboard) \cup ButtonData(top_keyboard)
                       \cup ButtonData(rate_keyboard)
            \/ \E c \in Range(KITCHEN_CATEGORIES) : tok \in ButtonData(workshop_keyboard(c))
            \/ \E c \in {Waiters, Bartenders} :
                  tok \in ButtonData(staff_list_keyboard(data, key_order, c))
            \/ \E x \in StaffTargets(data) : tok \in ButtonData(reviews_keyboard(x[1], x[2]))
            \/ OnActions(without)
    IN {p \in BOOLEAN : IF p THEN OnActions(withPhoto) ELSE elsewhere}

\* the record of a handled update: the handler it was dispatched to, the
\* sender, the callback data or message text, how the handler ended, and what
\* it rendered
Did(h, u, input, outcome, screen, mode) ==
    last' = [h |-> h, user |-> u, input |-> input, outcome |-> outcome,
             screen |-> screen, mode |-> mode, photo |-> FALSE]

\* the same for a callback query, with cb.message.photo of the message the
\* button was on
DidOn(photo, h, u, tok, outcome, screen, mode) ==
    last' = [h |-> h, user |-> u, input |-> tok, outcome |-> outcome,
             screen |-> screen, mode |-> mode, photo |-> photo]

Ok == "ok"
Raised == "raised"

(***************************** Init ****************************************)
NewStaff(name, photo) == [name |-> name, rating |-> 0, reviews |-> << >>, photo |-> photo]

\* the pre-seeded document: one waiter with a photo, one bartender without,
\* written before the kitchen workshops existed
SeededFile ==
    FileOf([k \in {Waiters, Bartenders} |->
               IF k = Waiters THEN [id \in {<<"1">>} |-> NewStaff("Ann", TRUE)]
               ELSE [id \in {<<"2">>} |-> NewStaff("Bob", FALSE)]],
           [top |-> <<Waiters, Bartenders>>,
            ids |-> [k \in {Waiters, Bartenders} |-> IF k = Waiters THEN <<<<"1">>>> ELSE <<<<"2">>>>]])

NoData == << >>
NoSession == [state |-> NoState, data |-> NoData]
\* no review flow accepted yet, and no handler in flight
NoFlow == [target |-> << >>, rating |-> 0]
Idle == [pc |-> "idle"]
NoLast ==
    [h |-> "none", user |-> 0, input |-> << >>, outcome |-> Ok, screen |-> NoScreen,
     mode |-> NoRender, photo |-> FALSE]

Init ==
    /\ file = SeededFile
    /\ staff_data = load_staff_data(file)
    /\ key_order = LoadedOrder(file)
    /\ fsm = [u \in Users |-> NoSession]
    /\ now = 0
    /\ last = NoLast
    /\ top = << >>
    /\ flow = [u \in Users |-> NoFlow]
    /\ tasks = [u \in Users |-> Idle]

(***************************** HANDLERS: navigation ************************)
\* a callback query of user u with data tok, pressed on a message with or
\* without a photo, is dispatched to handler h
Pressed(h, u, tok, photo) == CallbackHandler(tok, fsm[u].state) = h

Frame == UNCHANGED <<staff_data, key_order, file, fsm, now, top, flow, tasks>>

\* back_to_main_menu that also ends the dialogue
back_to_main_menu_clearing(u, tok, photo) ==
    /\ Pressed("back_to_main_menu", u, tok, photo)
    /\ DidOn(photo, "back_to_main_menu", u, tok, Ok, Screen("main_menu", main_menu), DeleteSend)
    /\ fsm' = [fsm EXCEPT ![u] = NoSession]
    /\ UNCHANGED <<staff_data, key_order, file, now, top, flow, tasks>>

back_to_main_menu(u, tok, photo) ==
    /\ Pressed("back_to_main_menu", u, tok, photo)
    /\ DidOn(photo, "back_to_main_menu", u, tok, Ok, Screen("main_menu", main_menu), DeleteSend)
    /\ Frame

start(u, text) ==
    /\ MessageHandler(text, fsm[u].state) = "start"
    /\ Did("start", u, text, Ok, Screen("welcome", start_keyboard), Send)
    /\ Frame

show_top_staff(u, tok, photo) ==
    /\ Pressed("show_top_staff", u, tok, photo)
    /\ top' = get_top_staff(staff_data, key_order, DefaultMinReviews, DefaultLimit)
    /\ DidOn(photo, "show_top_staff", u, tok, Ok, Screen("top_staff", top_keyboard), smart_edit(photo))
    /\ UNCHANGED <<staff_data, key_order, file, fsm, now, flow, tasks>>

start_pressed(u, text) ==
    /\ MessageHandler(text, fsm[u].state) = "start_pressed"
    /\ Did("start_pressed", u, text, Ok, Screen("main_menu", main_menu), Send)
    /\ Frame

select_category(u, tok, photo) ==
    /\ Pressed("select_category", u, tok, photo)
    /\ DidOn(photo, "select_category", u, tok, Ok, Screen("category_picker", category_keyboard), DeleteSend)
    /\ Frame

select_kitchen(u, tok, photo) ==
    /\ Pressed("select_kitchen", u, tok, photo)
    /\ DidOn(photo, "select_kitchen", u, tok, Ok, Screen("kitchen_picker", kitchen_keyboard), DeleteSend)
    /\ Frame

\* what show_category renders for a token, or NoScreen when a lookup raises
CategoryView(data, order, tok) ==
    LET category == Replace(tok, <<"category">>)
    IN IF IsKitchen(category)
       THEN IF HasCategory(data, category)
            THEN Screen("workshop_detail", workshop_keyboard(category))
            ELSE NoScreen
       ELSE IF HasCategory(data, category)
            THEN Screen("staff_list", staff_list_keyboard(data, order, category))
            ELSE NoScreen

show_category(u, tok, photo) ==
    /\ Pressed("show_category", u, tok, photo)
    /\ LET view == CategoryView(staff_data, key_order, tok)
       IN IF view = NoScreen
          THEN DidOn(photo, "show_category", u, tok, Raised, NoScreen, NoRender)
          ELSE DidOn(photo, "show_category", u, tok, Ok, view, smart_edit(photo))
    /\ Frame

\* what show_staff renders for a token, or NoScreen when a lookup raises
StaffView(data, tok) ==
    LET staff_id == ParseStaffId(tok)
        category == ParseCategory(tok)
    IN IF HasStaff(data, category, staff_id)
       THEN Screen("staff_detail", staff_actions_keyboard(category, staff_id))
       ELSE NoScreen

show_staff(u, tok, photo) ==
    /\ Pressed("show_staff", u, tok, photo)
    /\ LET view == StaffView(staff_data, tok)
       IN IF view = NoScreen
          THEN DidOn(photo, "show_staff", u, tok, Raised, NoScreen, NoRender)
          ELSE DidOn(photo, "show_staff", u, tok, Ok, view,
                   IF get_photo_path(staff_data, ParseCategory(tok), ParseStaffId(tok))
                   THEN DeleteSendPhoto ELSE DeleteSend)
    /\ Frame

WorkshopReviewsView(data, tok) ==
    LET category == Replace(tok, <<"reviews", "workshop">>)
    IN IF HasWorkshop(data, category)
       THEN Screen("workshop_reviews", workshop_keyboard(category))
       ELSE NoScreen

show_workshop_reviews(u, tok, photo) ==
    /\ Pressed("show_workshop_reviews", u, tok, photo)
    /\ LET view == WorkshopReviewsView(staff_data, tok)
       IN IF view = NoScreen
          THEN DidOn(photo, "show_workshop_reviews", u, tok, Raised, NoScreen, NoRender)
          ELSE DidOn(photo, "show_workshop_reviews", u, tok, Ok, view, smart_edit(photo))
    /\ Frame

StaffReviewsView(data, tok) ==
    LET staff_id == ParseStaffId(tok)
        category == ParseCategory(tok)
    IN IF HasStaff(data, category, staff_id)
       THEN Screen("staff_reviews", reviews_keyboard(category, staff_id))
       ELSE NoScreen

show_staff_reviews(u, tok, photo) ==
    /\ Pressed("show_staff_reviews", u, tok, photo)
    /\ LET view == StaffReviewsView(staff_data, tok)
       IN IF view = NoScreen
          THEN DidOn(photo, "show_staff_reviews", u, tok, Raised, NoScreen, NoRender)
          ELSE DidOn(photo, "show_staff_reviews", u, tok, Ok, view, smart_edit(photo))
    /\ Frame

\* fallback answers only when the user is in no dialogue
fallback(u, text) ==
    /\ MessageHandler(text, fsm[u].state) = "fallback"
    /\ IF fsm[u].state = NoState
       THEN Did("fallback", u, text, Ok, Screen("hint", start_keyboard), Send)
       ELSE Did("fallback", u, text, Ok, NoScreen, NoRender)
    /\ Frame

\* a callback query no handler's filter matches: a rate button pressed
\* outside the rating phase
unhandled(u, tok, photo) ==
    /\ Pressed("unhandled", u, tok, photo)
    /\ DidOn(photo, "unhandled", u, tok, Ok, NoScreen, NoRender)
    /\ Frame

(***************************** HANDLERS: review flow ***********************)
\* an update that keeps the value of a key the dict already holds
update_data_keeping(data, new) == data @@ new

\* state.update_data(**new): the dict is updated, the other keys stay
update_data(data, new) == new @@ data

\* data.get(key)
Get(data, key, default) == IF key \in DOMAIN data THEN data[key] ELSE default

RatingPicker == Screen("rating_picker", rate_keyboard)
TextPrompt == Screen("text_prompt", NoKeyboard)
Saved == Screen("saved", start_keyboard)

review_workshop_start(u, tok, photo) ==
    /\ Pressed("review_workshop_start", u, tok, photo)
    /\ LET category == Replace(tok, <<"review", "workshop">>)
       IN IF ~HasWorkshop(staff_data, category)
          THEN /\ DidOn(photo, "review_workshop_start", u, tok, Raised, NoScreen, NoRender)
               /\ UNCHANGED <<fsm, flow>>
          ELSE IF ~can_leave_review(staff_data[category], u, now)
          THEN /\ DidOn(photo, "review_workshop_start", u, tok, "rejected", NoScreen, Alert)
               /\ UNCHANGED <<fsm, flow>>
          ELSE /\ fsm' = [fsm EXCEPT ![u] =
                              [state |-> "rating",
                               data |-> update_data(fsm[u].data,
                                                    [category |-> category, workshop |-> TRUE])]]
               /\ flow' = [flow EXCEPT ![u] = [target |-> <<category>>, rating |-> 0]]
               /\ DidOn(photo, "review_workshop_start", u, tok, Ok, RatingPicker, smart_edit(photo))
    /\ UNCHANGED <<staff_data, key_order, file, now, top, tasks>>

\* review_staff_start with the session updated before the guard is asked
review_staff_start_unguarded(u, tok, photo) ==
    /\ Pressed("review_staff_start", u, tok, photo)
    /\ LET staff_id == ParseStaffId(tok)
           category == ParseCategory(tok)
       IN IF ~HasStaff(staff_data, category, staff_id)
          THEN /\ DidOn(photo, "review_staff_start", u, tok, Raised, NoScreen, NoRender)
               /\ UNCHANGED <<fsm, flow>>
          ELSE /\ fsm' = [fsm EXCEPT ![u] =
                              [state |-> "rating",
                               data |-> update_data(fsm[u].data,
                                                    [category |-> category, staff_id |-> staff_id])]]
               /\ flow' = [flow EXCEPT ![u] = [target |-> <<category, staff_id>>, rating |-> 0]]
               /\ IF ~can_leave_review(staff_data[category][staff_id], u, now)
                  THEN DidOn(photo, "review_staff_start", u, tok, "rejected", NoScreen, Alert)
                  ELSE DidOn(photo, "review_staff_start", u, tok, Ok, RatingPicker, smart_edit(photo))
    /\ UNCHANGED <<staff_data, key_order, file, now, top, tasks>>

review_staff_start(u, tok, photo) ==
    /\ Pressed("review_staff_start", u, tok, photo)
    /\ LET staff_id == ParseStaffId(tok)
           category == ParseCategory(tok)
       IN IF ~HasStaff(staff_data, category, staff_id)
          THEN /\ DidOn(photo, "review_staff_start", u, tok, Raised, NoScreen, NoRender)
               /\ UNCHANGED <<fsm, flow>>
          ELSE IF ~can_leave_review(staff_data[category][staff_id], u, now)
          THEN /\ DidOn(photo, "review_staff_start", u, tok, "rejected", NoScreen, Alert)
               /\ UNCHANGED <<fsm, flow>>
          ELSE /\ fsm' = [fsm EXCEPT ![u] =
                              [state |-> "rating",
                               data |-> update_data(fsm[u].data,
                                                    [category |-> category, staff_id |-> staff_id])]]
               /\ flow' = [flow EXCEPT ![u] = [target |-> <<category, staff_id>>, rating |-> 0]]
               /\ DidOn(photo, "review_staff_start", u, tok, Ok, RatingPicker, smart_edit(photo))
    /\ UNCHANGED <<staff_data, key_order, file, now, top, tasks>>

review_rating(u, tok, photo) ==
    /\ Pressed("review_rating", u, tok, photo)
    /\ fsm' = [fsm EXCEPT ![u] =
                  [state |-> "text",
                   data |-> update_data(fsm[u].data, [rating |-> ParseRating(tok)])]]
    /\ flow' = [flow EXCEPT ![u].rating = ParseRating(tok)]
    /\ DidOn(photo, "review_rating", u, tok, Ok, TextPrompt, smart_edit(photo))
    /\ UNCHANGED <<staff_data, key_order, file, now, top, tasks>>

\* the target review_text resolves from the session data: <<category>> for a
\* workshop, <<category, staff_id>> for a staff record
ReviewPath(data) ==
    IF Get(data, "workshop", FALSE) THEN <<data.category>>
    ELSE <<data.category, data.staff_id>>

\* obj["reviews"] can be reached: the keys are in the session data and the
\* path leads to a record with a reviews list
Resolves(store, data) ==
    /\ "category" \in DOMAIN data
    /\ "rating" \in DOMAIN data
    /\ IF Get(data, "workshop", FALSE)
       THEN HasWorkshop(store, data.category)
       ELSE "staff_id" \in DOMAIN data /\ HasStaff(store, data.category, data.staff_id)

ObjAt(store, path) ==
    IF Len(path) = 1 THEN store[path[1]] ELSE store[path[1]][path[2]]

Review(u, rating, text, t) ==
    [user_id |-> u, user |-> u, rating |-> rating, text |-> text, date |-> t]

\* an insertion of the review at the head of the list
AddReviewAtHead(obj, review) ==
    LET reviews == <<review>> \o obj.reviews
    IN [obj EXCEPT !.reviews = reviews,
                   !.rating = Round1(SumRatings(reviews), Len(reviews))]

\* obj["reviews"].append(...) and obj["rating"] = round(sum / len, 1)
AddReview(obj, review) ==
    LET reviews == Append(obj.reviews, review)
    IN [obj EXCEPT !.reviews = reviews,
                   !.rating = Round1(SumRatings(reviews), Len(reviews))]

PutAt(store, path, obj) ==
    IF Len(path) = 1 THEN [store EXCEPT ![path[1]] = obj]
    ELSE [store EXCEPT ![path[1]][path[2]] = obj]

Targets(store) ==
    {<<c>> : c \in {k \in DOMAIN store : IsKitchen(k)}} \cup StaffTargets(store)

RECURSIVE CountReviews(_, _)
CountReviews(store, ts) ==
    IF ts = {} THEN 0
    ELSE LET t == CHOOSE x \in ts : TRUE
         IN Len(ObjAt(store, t).reviews) + CountReviews(store, ts \ {t})

TotalReviews(store) == CountReviews(store, Targets(store))

\* save_staff_data: open(DATA_FILE, "w") and json.dump either succeed, or
\* open raises (the file is as it was), or the dump raises (the file is cut)
WriteOutcomes == {"written", "open_failed", "dump_failed"}

save_staff_data(store, order, old, outcome) ==
    IF outcome = "written" THEN FileOf(store, order)
    ELSE IF outcome = "open_failed" THEN old
    ELSE Truncated

review_text(u, text, outcome) ==
    /\ MessageHandler(text, fsm[u].state) = "review_text"
    /\ outcome \in WriteOutcomes
    /\ LET data == fsm[u].data
       IN IF ~Resolves(staff_data, data)
          THEN /\ outcome = "written"
               /\ Did("review_text", u, text, Raised, NoScreen, NoRender)
               /\ UNCHANGED <<staff_data, file, fsm, flow>>
          ELSE /\ LET path == ReviewPath(data)
                      obj == AddReview(ObjAt(staff_data, path), Review(u, data.rating, text, now))
                  IN /\ staff_data' = PutAt(staff_data, path, obj)
                     /\ file' = save_staff_data(staff_data', key_order, file, outcome)
               /\ IF outcome = "written"
                  THEN /\ fsm' = [fsm EXCEPT ![u] = NoSession]
                       /\ flow' = [flow EXCEPT ![u] = NoFlow]
                       /\ Did("review_text", u, text, Ok, Saved, Send)
                  ELSE /\ UNCHANGED <<fsm, flow>>
                       /\ Did("review_text", u, text, outcome, NoScreen, NoRender)
    /\ UNCHANGED <<key_order, now, top, tasks>>

(***************************** review_text, await by await ******************)
\* review_text as the event loop runs it: the handler may be suspended at
\* each await (state.get_data, state.clear, message.answer) and the handler
\* of another update may run meanwhile; what lies between two awaits runs
\* without interruption
InFlight(u) == tasks[u].pc \in {"got_data", "saved", "cleared"}

\* the filter and data = await state.get_data()
rt_get_data(u, text) ==
    /\ ~InFlight(u)
    /\ MessageHandler(text, fsm[u].state) = "review_text"
    /\ tasks' = [tasks EXCEPT ![u] =
                    [pc |-> "got_data", text |-> text, data |-> fsm[u].data, seen |-> staff_data]]
    /\ UNCHANGED <<staff_data, key_order, file, fsm, now, last, top, flow>>

\* the append and the save done on the store as it was when the handler
\* started
rt_save_on_seen(u, outcome) ==
    /\ tasks[u].pc = "got_data"
    /\ outcome \in WriteOutcomes
    /\ LET data == tasks[u].data
       IN IF ~Resolves(tasks[u].seen, data)
          THEN /\ outcome = "written"
               /\ tasks' = [tasks EXCEPT ![u] = [pc |-> "raised"]]
               /\ Did("review_text", u, tasks[u].text, Raised, NoScreen, NoRender)
               /\ UNCHANGED <<staff_data, file>>
          ELSE LET path == ReviewPath(data)
                   review == Review(u, data.rating, tasks[u].text, now)
               IN /\ staff_data' = PutAt(tasks[u].seen, path, AddReview(ObjAt(tasks[u].seen, path), review))
                  /\ file' = save_staff_data(staff_data', key_order, file, outcome)
                  /\ IF outcome = "written"
                     THEN /\ tasks' = [tasks EXCEPT ![u] =
                                          [pc |-> "saved", text |-> tasks[u].text, target |-> path,
                                           review |-> review, seen |-> tasks[u].seen]]
                          /\ UNCHANGED last
                     ELSE /\ tasks' = [tasks EXCEPT ![u] = [pc |-> "raised"]]
                          /\ Did("review_text", u, tasks[u].text, outcome, NoScreen, NoRender)
    /\ UNCHANGED <<key_order, fsm, now, top, flow>>

\* bot.py:429-446: the target, the append, the rating and save_staff_data()
rt_save(u, outcome) ==
    /\ tasks[u].pc = "got_data"
    /\ outcome \in WriteOutcomes
    /\ LET data == tasks[u].data
       IN IF ~Resolves(staff_data, data)
          THEN /\ outcome = "written"
               /\ tasks' = [tasks EXCEPT ![u] = [pc |-> "raised"]]
               /\ Did("review_text", u, tasks[u].text, Raised, NoScreen, NoRender)
               /\ UNCHANGED <<staff_data, file>>
          ELSE LET path == ReviewPath(data)
                   review == Review(u, data.rating, tasks[u].text, now)
               IN /\ staff_data' = PutAt(staff_data, path, AddReview(ObjAt(staff_data, path), review))
                  /\ file' = save_staff_data(staff_data', key_order, file, outcome)
                  /\ IF outcome = "written"
                     THEN /\ tasks' = [tasks EXCEPT ![u] =
                                          [pc |-> "saved", text |-> tasks[u].text, target |-> path,
                                           review |-> review, seen |-> tasks[u].seen]]
                          /\ UNCHANGED last
                     ELSE /\ tasks' = [tasks EXCEPT ![u] = [pc |-> "raised"]]
                          /\ Did("review_text", u, tasks[u].text, outcome, NoScreen, NoRender)
    /\ UNCHANGED <<key_order, fsm, now, top, flow>>

\* await state.clear()
rt_clear(u) ==
    /\ tasks[u].pc = "saved"
    /\ fsm' = [fsm EXCEPT ![u] = NoSession]
    /\ flow' = [flow EXCEPT ![u] = NoFlow]
    /\ tasks' = [tasks EXCEPT ![u].pc = "cleared"]
    /\ UNCHANGED <<staff_data, key_order, file, now, last, top>>

\* await message.answer(...)
rt_answer(u) ==
    /\ tasks[u].pc = "cleared"
    /\ Did("review_text", u, tasks[u].text, Ok, Saved, Send)
    /\ tasks' = [tasks EXCEPT ![u].pc = "done"]
    /\ UNCHANGED <<staff_data, key_order, file, fsm, now, top, flow>>

(***************************** time ****************************************)
Tick(t) ==
    /\ now' = t
    /\ UNCHANGED <<staff_data, key_order, file, fsm, last, top, flow, tasks>>

(***************************** specification *******************************)
\* The updates the users send.  A button can be pressed while a message
\* carries it; a user may keep any number of menu messages (each START sends
\* a fresh one), so every emitted token can be pressed at any time.
Navigate(u, tok, photo) ==
    \/ back_to_main_menu(u, tok, photo)
    \/ show_top_staff(u, tok, photo)
    \/ select_category(u, tok, photo)
    \/ select_kitchen(u, tok, photo)
    \/ show_category(u, tok, photo)
    \/ show_staff(u, tok, photo)
    \/ show_workshop_reviews(u, tok, photo)
    \/ show_staff_reviews(u, tok, photo)

Dialogue(u, tok, photo) ==
    \/ review_workshop_start(u, tok, photo)
    \/ review_staff_start(u, tok, photo)
    \/ review_rating(u, tok, photo)
    \/ unhandled(u, tok, photo)

Message(u, text, cap) ==
    \/ start(u, text)
    \/ start_pressed(u, text)
    \/ fallback(u, text)
    \/ \E outcome \in WriteOutcomes :
          /\ Resolves(staff_data, fsm[u].data) => TotalReviews(staff_data) < cap
          /\ review_text(u, text, outcome)

\* the clock moves on to a later instant
Clock == \E t \in Instants : t > now /\ t <= MaxTime /\ Tick(t)

\* the buttons the acting users press: every navigation button, the
\* leave-review buttons of one staff record and one workshop, and the rate
\* buttons RatesPressed
ReviewButtons ==
    {<<"review">> \o Waiters \o <<"1">>, <<"review", "workshop">> \o ColdKitchen}

IsDialogueToken(tok) ==
    CallbackHandler(tok, "rating") \in {"review_workshop_start", "review_staff_start", "review_rating"}

PressedTokens(data, order) ==
    {tok \in Tokens(data, order) : ~IsDialogueToken(tok)}
    \cup ReviewButtons \cup {<<"rate", ToString(i)>> : i \in RatesPressed}

\* the whole program
Next ==
    \/ \E u \in Active, tok \in PressedTokens(staff_data, key_order) :
          \E photo \in PhotoOptions(staff_data, tok) :
             Navigate(u, tok, photo) \/ Dialogue(u, tok, photo)
    \/ \E u \in Active, text \in Texts : Message(u, text, MaxReviews)
    \/ Clock

Spec == Init /\ [][Next]_vars

\* the review flow alone: the handlers that read or write a session or the
\* store, with room for a second review
FlowTokens ==
    ReviewButtons \cup {<<"rate", ToString(i)>> : i \in RatesPressed}

NextFlow ==
    \/ \E u \in Active, tok \in FlowTokens :
          \E photo \in PhotoOptions(staff_data, tok) : Dialogue(u, tok, photo)
    \/ \E u \in Active, text \in Texts : Message(u, text, FlowMaxReviews)
    \/ Clock

SpecFlow == Init /\ [][NextFlow]_vars

(***************************** the ranking alone ***************************)
\* the ratings of the reviews a record of SpecTop may hold
RatingLists == {<< >>, <<5>>, <<4, 5>>, <<5, 4, 5>>, <<4, 4, 5>>}

ReviewsOf(ratings) == [i \in 1 .. Len(ratings) |-> Review(i, ratings[i], "hello", 0)]

\* a record as review_text leaves it after reviews of these ratings
Reviewed(obj, ratings) ==
    [obj EXCEPT !.reviews = ReviewsOf(ratings),
                !.rating = IF ratings = << >> THEN 0
                           ELSE Round1(SumRatings(ReviewsOf(ratings)), Len(ratings))]

\* a document of two waiters, one bartender and a reviewed workshop, in
\* either order of the categories and of the waiters
TopFiles ==
    {FileOf([k \in {Waiters, Bartenders, ColdKitchen} |->
                IF k = Waiters
                THEN [id \in {<<"1">>, <<"2">>} |->
                        Reviewed(NewStaff(IF id = <<"1">> THEN "Ann" ELSE "Eve", FALSE),
                                 IF id = <<"1">> THEN a ELSE b)]
                ELSE IF k = Bartenders
                THEN [id \in {<<"3">>} |-> Reviewed(NewStaff("Bob", FALSE), c)]
                ELSE Reviewed([rating |-> 0, reviews |-> << >>], <<5, 4, 5>>)],
            [top |-> cats,
             ids |-> [k \in {Waiters, Bartenders} |-> IF k = Waiters THEN ws ELSE <<<<"3">>>>]]) :
        <<a, b, c, cats, ws>> \in
            RatingLists \X RatingLists \X RatingLists
            \X {<<Waiters, ColdKitchen, Bartenders>>, <<Bartenders, ColdKitchen, Waiters>>}
            \X {<<<<"1">>, <<"2">>>>, <<<<"2">>, <<"1">>>>}}

InitTop ==
    /\ file \in TopFiles
    /\ staff_data = load_staff_data(file)
    /\ key_order = LoadedOrder(file)
    /\ fsm = [u \in Users |-> NoSession]
    /\ now = 0
    /\ last = NoLast
    /\ top = << >>
    /\ flow = [u \in Users |-> NoFlow]
    /\ tasks = [u \in Users |-> Idle]

\* a call get_top_staff(min_reviews, limit)
GetTop(min_reviews, limit) ==
    /\ top' = get_top_staff(staff_data, key_order, min_reviews, limit)
    /\ Did("get_top_staff", 0, <<min_reviews, limit>>, Ok, NoScreen, NoRender)
    /\ UNCHANGED <<staff_data, key_order, file, fsm, now, flow, tasks>>

NextTop == \E m \in 0 .. MaxMinReviews, l \in 0 .. MaxLimit : GetTop(m, l)

SpecTop == InitTop /\ [][NextTop]_vars

(***************************** one record, day after day *******************)
\* one reviewer reviews the waiter "1" once a day, every write succeeding
AnnTokens == {<<"review">> \o Waiters \o <<"1">>} \cup {<<"rate", ToString(i)>> : i \in {3, 4, 5}}

NextDay == now + Day <= MaxDays * Day /\ Tick(now + Day)

NextAnn ==
    \/ \E u \in Active, tok \in AnnTokens :
          \E photo \in PhotoOptions(staff_data, tok) :
             review_staff_start(u, tok, photo) \/ review_rating(u, tok, photo)
    \/ \E u \in Active, text \in PlainTexts :
          /\ TotalReviews(staff_data) < AnnMaxReviews
          /\ review_text(u, text, "written")
    \/ NextDay

SpecAnn == Init /\ [][NextAnn]_vars

(***************************** two reviewers at once ***********************)
\* both users review the waiter "1"; the handlers of their text messages
\* interleave at the awaits
ConcTokens == {<<"review">> \o Waiters \o <<"1">>} \cup {<<"rate", ToString(i)>> : i \in RatesPressed}

NextConc ==
    \/ \E u \in Users, tok \in ConcTokens :
          \E photo \in PhotoOptions(staff_data, tok) :
             review_staff_start(u, tok, photo) \/ review_rating(u, tok, photo)
    \/ \E u \in Users, text \in PlainTexts : rt_get_data(u, text)
    \/ \E u \in Users, outcome \in WriteOutcomes :
          /\ tasks[u].pc = "got_data"
          /\ Resolves(staff_data, tasks[u].data) => TotalReviews(staff_data) < ConcMaxReviews
          /\ rt_save(u, outcome)
    \/ \E u \in Users : rt_clear(u)
    \/ \E u \in Users : rt_answer(u)

SpecConc == Init /\ [][NextConc]_vars

(***************************** the buttons of any document *****************)
\* the staff ids of the waiters in the documents of SpecTokens: "1", "a_b",
\* or both
IdLists == {<<<<"1">>>>, <<<<"a", "b">>>>, <<<<"1">>, <<"a", "b">>>>}

TokenFiles ==
    {FileOf([k \in {Waiters, Bartenders} |->
                IF k = Waiters THEN [id \in Range(ids) |-> NewStaff("Ann", id = <<"1">>)]
                ELSE [id \in {<<"2">>} |-> NewStaff("Bob", FALSE)]],
            [top |-> <<Waiters, Bartenders>>,
             ids |-> [k \in {Waiters, Bartenders} |-> IF k = Waiters THEN ids ELSE <<<<"2">>>>]]) :
        ids \in IdLists}

InitTokens ==
    /\ file \in TokenFiles
    /\ staff_data = load_staff_data(file)
    /\ key_order = LoadedOrder(file)
    /\ fsm = [u \in Users |-> NoSession]
    /\ now = 0
    /\ last = NoLast
    /\ top = << >>
    /\ flow = [u \in Users |-> NoFlow]
    /\ tasks = [u \in Users |-> Idle]

\* every button of every keyboard is pressed
NextTokens ==
    \E u \in Active, tok \in Tokens(staff_data, key_order) :
       \E photo \in PhotoOptions(staff_data, tok) :
          Navigate(u, tok, photo) \/ Dialogue(u, tok, photo)

SpecTokens == InitTokens /\ [][NextTokens]_vars

(***************************** the start of the process ********************)
\* what a document may hold of a workshop: nothing, either field, or both
WorkshopShapes ==
    {<< >>,
     [rating |-> 47],
     [reviews |-> ReviewsOf(<<5, 4, 5>>)],
     [rating |-> 47, reviews |-> ReviewsOf(<<5, 4, 5>>)]}

KeptOf(seq, S) == SelectSeq(seq, LAMBDA x : x \in S)

\* the documents bot.py may find: any of the five categories present, the
\* workshops in any shape, the staff categories with their staff
LoadFiles ==
    {FileOf([k \in present |->
                IF k = ColdKitchen THEN c
                ELSE IF k = HotKitchen THEN h
                ELSE IF k = PastryKitchen THEN p
                ELSE IF k = Waiters THEN [id \in {<<"1">>} |-> NewStaff("Ann", TRUE)]
                ELSE [id \in {<<"2">>} |-> NewStaff("Bob", FALSE)]],
            [top |-> KeptOf(ALL_CATEGORIES, present),
             ids |-> [k \in present \cap {Waiters, Bartenders} |->
                         IF k = Waiters THEN <<<<"1">>>> ELSE <<<<"2">>>>]]) :
        <<present, c, h, p>> \in
            (SUBSET Range(ALL_CATEGORIES)) \X WorkshopShapes \X WorkshopShapes \X WorkshopShapes}

NotLoaded == << >>

InitLoad ==
    /\ file \in LoadFiles \cup {NoFile}
    /\ staff_data = NotLoaded
    /\ key_order = NotLoaded
    /\ fsm = [u \in Users |-> NoSession]
    /\ now = 0
    /\ last = NoLast
    /\ top = << >>
    /\ flow = [u \in Users |-> NoFlow]
    /\ tasks = [u \in Users |-> Idle]

\* staff_data = load_staff_data()
Load ==
    /\ staff_data = NotLoaded
    /\ staff_data' = load_staff_data(file)
    /\ key_order' = LoadedOrder(file)
    /\ Did("load_staff_data", 0, << >>, Ok, NoScreen, NoRender)
    /\ UNCHANGED <<file, fsm, now, top, flow, tasks>>

NextLoad == Load

SpecLoad == InitLoad /\ [][NextLoad]_vars

(***************************** properties **********************************)
Abs(x) == IF x < 0 THEN -x ELSE x

ReviewsAt(store, t) == ObjAt(store, t).reviews

RatingsTotal(reviews) ==
    LET f[i \in 0 .. Len(reviews)] == IF i = 0 THEN 0 ELSE f[i - 1] + reviews[i].rating
    IN f[Len(reviews)]

\* rating (in tenths) is a tenth nearest to the mean of the reviews' ratings
IsRoundedMean(obj) ==
    IF obj.reviews = << >> THEN obj.rating = 0
    ELSE 2 * Abs(obj.rating * Len(obj.reviews) - 10 * RatingsTotal(obj.reviews))
            <= Len(obj.reviews)

\* user u has a review of target t that is less than a day old
RecentlyReviewed(store, t, u, time) ==
    \E i \in 1 .. Len(ReviewsAt(store, t)) :
        /\ ReviewsAt(store, t)[i].user_id = u
        /\ time - ReviewsAt(store, t)[i].date < Day

\* the target a leave-review token names
TargetOfToken(tok) ==
    IF tok[2] = "workshop" THEN <<SubSeq(tok, 3, Len(tok))>>
    ELSE <<SubSeq(tok, 2, Len(tok) - 1), <<tok[Len(tok)]>>>>

\* this step handled an update with handler h
Handled(h) == now' = now /\ last'.h = h

WriteFailures == {"open_failed", "dump_failed"}

\* this step appended exactly one review to target t and left the other
\* targets alone
AppendedTo(t) ==
    /\ Len(ReviewsAt(staff_data', t)) = Len(ReviewsAt(staff_data, t)) + 1
    /\ SubSeq(ReviewsAt(staff_data', t), 1, Len(ReviewsAt(staff_data, t))) = ReviewsAt(staff_data, t)
    /\ \A o \in Targets(staff_data) \ {t} : ObjAt(staff_data', o) = ObjAt(staff_data, o)

NewReview(t) == ReviewsAt(staff_data', t)[Len(ReviewsAt(staff_data', t))]

\* C1: in every reachable state every target's stored rating is the mean of
\* its reviews' ratings rounded to one decimal place, and 0 when it has no
\* reviews.
C1_RatingIsRoundedMean ==
    \A t \in Targets(staff_data) : IsRoundedMean(ObjAt(staff_data, t))

\* a target with three reviews or more whose mean is not a whole tenth
C1_Witness ==
    \E t \in Targets(staff_data) :
        /\ Len(ReviewsAt(staff_data, t)) >= 3
        /\ (10 * RatingsTotal(ReviewsAt(staff_data, t))) % Len(ReviewsAt(staff_data, t)) # 0
        /\ ObjAt(staff_data, t).rating > 0

\* C2: any two reviews of one target by the same reviewer are at least 24
\* hours apart.
C2_ReviewsADayApart ==
    \A t \in Targets(staff_data) :
        \A i, j \in 1 .. Len(ReviewsAt(staff_data, t)) :
            (i < j /\ ReviewsAt(staff_data, t)[i].user_id = ReviewsAt(staff_data, t)[j].user_id)
            => ReviewsAt(staff_data, t)[j].date - ReviewsAt(staff_data, t)[i].date >= Day

\* C3: a text message that reaches review_text (and whose file write does
\* not fail) completes the submission: one review with the picked rating and
\* the text is appended to a target, the rating is recomputed, the store is
\* on disk and the session is back at no dialogue with no data.
C3_SubmissionCompletes ==
    [][(Handled("review_text") /\ last'.outcome \notin WriteFailures)
        => /\ last'.outcome = Ok
           /\ fsm'[last'.user] = NoSession
           /\ file' = FileOf(staff_data', key_order')
           /\ \E t \in Targets(staff_data) :
                 /\ AppendedTo(t)
                 /\ NewReview(t).rating = fsm[last'.user].data.rating
                 /\ NewReview(t).text = last'.input
                 /\ NewReview(t).user_id = last'.user
                 /\ IsRoundedMean(ObjAt(staff_data', t))]_vars

MessageHandlers == {"start", "start_pressed", "review_text", "fallback"}

\* C4: a text message sent in the free-text phase, whatever its content, is
\* handled by review_text, becomes the body of an appended review, and the
\* session leaves the free-text phase (stated for the messages whose handling
\* meets no file write failure).
C4_TextIsCaptured ==
    [][(/\ now' = now
        /\ last'.h \in MessageHandlers
        /\ last'.outcome \notin WriteFailures
        /\ fsm[last'.user].state = "text")
        => /\ last'.h = "review_text"
           /\ fsm'[last'.user].state # "text"
           /\ \E t \in Targets(staff_data) :
                 AppendedTo(t) /\ NewReview(t).text = last'.input]_vars

\* C5: a press of a leave-review button for a target the reviewer reviewed
\* less than 24 hours ago ends in an alert and nothing else: no screen is
\* rendered, and sessions, store and file are as before.
C5_RejectionChangesNothing ==
    [][(/\ now' = now
        /\ last'.h \in {"review_staff_start", "review_workshop_start"}
        /\ TargetOfToken(last'.input) \in Targets(staff_data)
        /\ RecentlyReviewed(staff_data, TargetOfToken(last'.input), last'.user, now))
        => /\ last'.outcome = "rejected"
           /\ last'.mode = Alert
           /\ last'.screen = NoScreen
           /\ fsm' = fsm
           /\ staff_data' = staff_data
           /\ file' = file]_vars

\* a press was rejected while the reviewer was in no dialogue
C5_Witness ==
    /\ last.h \in {"review_staff_start", "review_workshop_start"}
    /\ last.outcome = "rejected"
    /\ fsm[last.user].state = NoState

\* C6: for every target, reviewer and the current time, can_leave_review is
\* false exactly when the target has a review by that reviewer less than 24
\* hours old; a review exactly 24 hours old does not block; a reviewer is
\* refused 12 hours after a review and, with no later review, admitted 25
\* hours after it.
C6_GuardIsCooldown ==
    \A t \in Targets(staff_data), u \in Users :
        LET rs == ReviewsAt(staff_data, t)
            guard == can_leave_review(ObjAt(staff_data, t), u, now)
        IN /\ guard = ~RecentlyReviewed(staff_data, t, u, now)
           /\ \A i \in 1 .. Len(rs) :
                 rs[i].user_id = u =>
                    /\ now = rs[i].date + 12 => ~guard
                    /\ (now = rs[i].date + 25 /\ \A j \in 1 .. Len(rs) : rs[j].date <= rs[i].date)
                          => guard

\* one target reviewed exactly 24 hours ago and admitted, another reviewed
\* 12 hours ago and refused
C6_Witness ==
    \E t1, t2 \in Targets(staff_data) :
        /\ \E i \in 1 .. Len(ReviewsAt(staff_data, t1)) :
              /\ ReviewsAt(staff_data, t1)[i].user_id = 1
              /\ now = ReviewsAt(staff_data, t1)[i].date + Day
        /\ can_leave_review(ObjAt(staff_data, t1), 1, now)
        /\ \E i \in 1 .. Len(ReviewsAt(staff_data, t2)) :
              /\ ReviewsAt(staff_data, t2)[i].user_id = 1
              /\ now = ReviewsAt(staff_data, t2)[i].date + 12
        /\ ~can_leave_review(ObjAt(staff_data, t2), 1, now)

\* the staff of the non-workshop categories, as <<category, staff id>>
StaffPairs ==
    UNION {{<<k, id>> : id \in DOMAIN staff_data[k]} :
              k \in {c \in DOMAIN staff_data : ~IsKitchen(c)}}

Eligible(min_reviews) ==
    {p \in StaffPairs : /\ staff_data[p[1]][p[2]].rating > 0
                        /\ Len(staff_data[p[1]][p[2]].reviews) >= min_reviews}

IndexOf(seq, x) == CHOOSE i \in 1 .. Len(seq) : seq[i] = x

\* p is met before q: an earlier category, or the same and an earlier insertion
MetBefore(p, q) ==
    \/ IndexOf(key_order.top, p[1]) < IndexOf(key_order.top, q[1])
    \/ p[1] = q[1] /\ IndexOf(key_order.ids[p[1]], p[2]) < IndexOf(key_order.ids[q[1]], q[2])

RanksBefore(p, q) ==
    LET rp == staff_data[p[1]][p[2]].rating
        rq == staff_data[q[1]][q[2]].rating
    IN rp > rq \/ (rp = rq /\ MetBefore(p, q))

EntryOf(p) ==
    [name |-> staff_data[p[1]][p[2]].name, rating |-> staff_data[p[1]][p[2]].rating,
     reviews |-> Len(staff_data[p[1]][p[2]].reviews), category |-> p[1]]

\* C7: for every store, min_reviews and limit (a count), the ranking is the
\* first 'limit' entries of the staff of the non-workshop categories with
\* rating > 0 and at least min_reviews reviews, ordered by rating descending
\* with ties in encounter order: no workshop, no entry with fewer reviews or
\* rating 0, at most 'limit' entries.
C7_TopIsRanking ==
    last.h = "get_top_staff" =>
        LET min_reviews == last.input[1]
            limit == last.input[2]
            E == Eligible(min_reviews)
        IN /\ Len(top) = (IF limit < Cardinality(E) THEN limit ELSE Cardinality(E))
           /\ \E f \in [1 .. Len(top) -> E] :
                /\ \A i \in 1 .. Len(top) : top[i] = EntryOf(f[i])
                /\ \A i, j \in 1 .. Len(top) : i < j => RanksBefore(f[i], f[j])
                /\ \A p \in E \ {f[i] : i \in 1 .. Len(top)} :
                      \A i \in 1 .. Len(top) : RanksBefore(f[i], p)
           /\ \A i \in 1 .. Len(top) :
                /\ ~IsKitchen(top[i].category)
                /\ top[i].reviews >= min_reviews
                /\ top[i].rating > 0
           /\ Len(top) <= limit

\* min_reviews = 3, limit = 1, two eligible staff rated 4.7 and 4.3: only the
\* 4.7 entry is returned
C7_Witness ==
    /\ last.h = "get_top_staff"
    /\ last.input = <<3, 1>>
    /\ {staff_data[p[1]][p[2]].rating : p \in Eligible(3)} = {47, 43}
    /\ Cardinality(Eligible(3)) = 2
    /\ Len(top) = 1
    /\ top[1].rating = 47

\* the ratings of the reviews of the waiter "1", in the order submitted
AnnRatings ==
    [i \in 1 .. Len(staff_data[Waiters][<<"1">>].reviews) |->
        staff_data[Waiters][<<"1">>].reviews[i].rating]

\* C8 as stated: from no reviews, after submissions rated 5, 4 and 5 the
\* stored rating is 4.7 (47 tenths), and after a fourth rated 3 it is 4.3.
C8_FourthReviewGives43 ==
    /\ AnnRatings = <<5, 4, 5>> => staff_data[Waiters][<<"1">>].rating = 47
    /\ AnnRatings = <<5, 4, 5, 3>> => staff_data[Waiters][<<"1">>].rating = 43

\* C8 as amended: from no reviews, after submissions rated 5, 4 and 5 the
\* stored rating is 4.7 (47 tenths), and after a fourth rated 3 it is 4.2:
\* round(17 / 4, 1) rounds the exact tie 4.25 to the even tenth.
C8_FourthReviewGives42 ==
    /\ AnnRatings = <<5, 4, 5>> => staff_data[Waiters][<<"1">>].rating = 47
    /\ AnnRatings = <<5, 4, 5, 3>> => staff_data[Waiters][<<"1">>].rating = 42

C8_Witness ==
    /\ AnnRatings = <<5, 4, 5, 3>>
    /\ staff_data[Waiters][<<"1">>].rating = 42
    /\ last.h = "review_text"

\* C9: a submission whose file write fails leaves the in-memory store as it
\* was.
C9_FailedWriteLeavesStore ==
    [][(Handled("review_text") /\ last'.outcome \in WriteFailures)
        => staff_data' = staff_data]_vars

\* the screen a press of a navigation button brings up: the dispatch of
\* its token and the view of the handler
ViewOf(tok) ==
    LET h == CallbackHandler(tok, NoState)
    IN IF h = "back_to_main_menu" THEN Screen("main_menu", main_menu)
       ELSE IF h = "select_category" THEN Screen("category_picker", category_keyboard)
       ELSE IF h = "select_kitchen" THEN Screen("kitchen_picker", kitchen_keyboard)
       ELSE IF h = "show_category" THEN CategoryView(staff_data, key_order, tok)
       ELSE IF h = "show_staff" THEN StaffView(staff_data, tok)
       ELSE NoScreen

\* the screens one press of a back button of the screen leads to
PressBack(screen) ==
    {ViewOf(screen.kb[i].data) : i \in {k \in 1 .. Len(screen.kb) : screen.kb[k].text = Back}}

RECURSIVE BackClosure(_)
BackClosure(screens) ==
    LET more == screens \cup UNION {PressBack(x) : x \in screens}
    IN IF more = screens THEN screens ELSE BackClosure(more)

ReachesMainMenu(screen) == \E x \in BackClosure({screen}) : x.kind = "main_menu"

MenuScreens ==
    {"main_menu", "category_picker", "kitchen_picker", "staff_list", "workshop_detail",
     "staff_detail", "staff_reviews", "workshop_reviews", "top_staff"}

FlowScreens == {"rating_picker", "text_prompt"}

\* C10 as stated: from every rendered screen, the rating picker and the
\* free-text prompt included, presses of back buttons lead to the main menu.
C10_EveryScreenReachesMainMenu ==
    last.screen.kind \in MenuScreens \cup FlowScreens => ReachesMainMenu(last.screen)

\* C10 as amended: from every rendered menu screen (main menu, category
\* picker, kitchen picker, staff list, workshop detail, staff detail, either
\* reviews list, top-staff list) presses of back buttons lead to the main
\* menu; the rating picker and the free-text prompt offer no back button.
\* (A back press is followed through ViewOf, which is what the navigation
\* handlers render.)
C10_MenuScreensReachMainMenu ==
    /\ last.screen.kind \in MenuScreens => ReachesMainMenu(last.screen)
    /\ last.screen.kind \in FlowScreens => PressBack(last.screen) = {}
    /\ last.h \in {"back_to_main_menu", "select_category", "select_kitchen",
                   "show_category", "show_staff"} /\ last.outcome = Ok
          => last.screen = ViewOf(last.input)

\* a staff member's reviews list, four back presses away from the main menu
C10_Witness ==
    /\ last.screen.kind = "staff_reviews"
    /\ ReachesMainMenu(last.screen)
    /\ ~(\E x \in PressBack(last.screen) \cup UNION {PressBack(y) : y \in PressBack(last.screen)} :
            x.kind = "main_menu")

IsPrefix(p, q) == Len(p) <= Len(q) /\ SubSeq(q, 1, Len(p)) = p

\* C11: across every step each target's reviews list is a prefix of its next
\* reviews list, a step appends at most one review to at most one target,
\* and no category and no staff id leaves the store.
C11_ReviewsAppendOnly ==
    [][/\ DOMAIN staff_data \subseteq DOMAIN staff_data'
       /\ Targets(staff_data) \subseteq Targets(staff_data')
       /\ \A t \in Targets(staff_data) :
             /\ IsPrefix(ReviewsAt(staff_data, t), ReviewsAt(staff_data', t))
             /\ Len(ReviewsAt(staff_data', t)) <= Len(ReviewsAt(staff_data, t)) + 1
       /\ Cardinality({t \in Targets(staff_data) :
                          Len(ReviewsAt(staff_data', t)) > Len(ReviewsAt(staff_data, t))}) <= 1]_vars

\* a submission appended a review behind an earlier one
C11_Witness ==
    /\ last.h = "review_text"
    /\ last.outcome = Ok
    /\ \E t \in Targets(staff_data) :
          /\ Len(ReviewsAt(staff_data, t)) >= 2
          /\ ReviewsAt(staff_data, t)[Len(ReviewsAt(staff_data, t))].date = now
          /\ ReviewsAt(staff_data, t)[1].date < now

\* C12: after every submission that completes, loading the file that save
\* wrote yields the in-memory store (categories, staff, review sequences,
\* ratings and the order of the keys), and every store the process reaches
\* survives save followed by load.
C12_SaveLoadRoundTrip ==
    [][/\ (Handled("review_text") /\ last'.outcome = Ok)
             => /\ file'.valid
                /\ load_staff_data(file') = staff_data'
                /\ LoadedOrder(file') = key_order'
       /\ load_staff_data(FileOf(staff_data', key_order')) = staff_data'
       /\ LoadedOrder(FileOf(staff_data', key_order')) = key_order']_vars

\* a completed submission saved a reviewed workshop and a staff record whose
\* rating is not a whole number
C12_Witness ==
    /\ last.h = "review_text"
    /\ last.outcome = Ok
    /\ file = FileOf(staff_data, key_order)
    /\ staff_data[ColdKitchen].reviews # << >>
    /\ staff_data[Waiters][<<"1">>].rating % 10 # 0

\* C13: for every document, whichever categories and workshop fields it
\* lacks, load returns all five categories, every workshop with a rating (0
\* when it was missing) and a reviews list (empty when it was missing), and
\* every key and value of the file as it was; with no file it returns the
\* default document.
C13_LoadBackFills ==
    last.h = "load_staff_data" =>
        /\ last.outcome = Ok
        /\ DOMAIN staff_data = Range(ALL_CATEGORIES)
        /\ \A k \in Range(ALL_CATEGORIES) :
              LET had == file.exists /\ k \in DOMAIN file.doc
                  was == LoadDocument(file.doc)[k]
              IN IF IsKitchen(k)
                 THEN /\ DOMAIN staff_data[k] = {"rating", "reviews"}
                      /\ staff_data[k].rating =
                            (IF had /\ "rating" \in DOMAIN was THEN was.rating ELSE 0)
                      /\ staff_data[k].reviews =
                            (IF had /\ "reviews" \in DOMAIN was THEN was.reviews ELSE << >>)
                 ELSE staff_data[k] = (IF had THEN was ELSE << >>)

\* a document without cold_kitchen, with a workshop that has reviews and no
\* rating, and with a waiter, was loaded
C13_Witness ==
    /\ last.h = "load_staff_data"
    /\ file.exists
    /\ ColdKitchen \notin DOMAIN file.doc
    /\ staff_data[ColdKitchen] = [rating |-> 0, reviews |-> << >>]
    /\ HotKitchen \in DOMAIN file.doc
    /\ DOMAIN file.doc[HotKitchen] = {"reviews"}
    /\ Len(staff_data[HotKitchen].reviews) = 3
    /\ Waiters \in DOMAIN file.doc
    /\ staff_data[Waiters][<<"1">>].name = "Ann"

\* this step appended to target t
Grew(t) == Len(ReviewsAt(staff_data', t)) > Len(ReviewsAt(staff_data, t))

\* C14: every review appended to the store is appended by the free-text
\* handler to the target of the reviewer's most recently accepted review
\* action, and to no other staff record, workshop or category, whatever
\* flows the reviewer started and abandoned before.
C14_ReviewGoesToAcceptedTarget ==
    [][\A t \in Targets(staff_data) :
          Grew(t) => /\ last'.h = "review_text"
                     /\ now' = now
                     /\ flow[last'.user].target = t
                     /\ NewReview(t).user_id = last'.user
                     /\ \A o \in Targets(staff_data) \ {t} : ~Grew(o)]_vars

\* a review went to the workshop although the session still holds the staff
\* id of an abandoned staff flow
C14_Witness ==
    /\ last.h = "review_text"
    /\ last.outcome \in WriteFailures
    /\ "staff_id" \in DOMAIN fsm[last.user].data
    /\ Get(fsm[last.user].data, "workshop", FALSE)
    /\ flow[last.user].target = <<ColdKitchen>>
    /\ Len(staff_data[ColdKitchen].reviews) = 1
    /\ staff_data[ColdKitchen].reviews[1].user_id = last.user
    /\ staff_data[Waiters][<<"1">>].reviews = << >>

IsRateToken(tok) == Len(tok) = 2 /\ tok[1] = "rate"

\* C16: a rate button changes a session only in the rating phase (pressed in
\* no dialogue or in the free-text phase it changes nothing); a session in
\* the free-text phase holds a rating in 1..5 and a category; every review
\* appended has an integer rating in 1..5, the one picked after the last
\* accepted review action.
C16_RatingOnlyInRatingPhase ==
    [][/\ (/\ now' = now
           /\ last'.h \in {"review_rating", "unhandled"}
           /\ IsRateToken(last'.input))
          => IF fsm[last'.user].state = "rating"
             THEN /\ last'.h = "review_rating"
                  /\ fsm'[last'.user].state = "text"
                  /\ fsm'[last'.user].data.rating = ParseRating(last'.input)
             ELSE /\ last'.h = "unhandled"
                  /\ fsm' = fsm
                  /\ staff_data' = staff_data
                  /\ file' = file
                  /\ last'.screen = NoScreen
       /\ \A u \in Users :
             fsm'[u].state = "text"
                => /\ "rating" \in DOMAIN fsm'[u].data
                   /\ fsm'[u].data.rating \in 1 .. 5
                   /\ "category" \in DOMAIN fsm'[u].data
                   /\ fsm'[u].data.rating = flow'[u].rating
       /\ \A t \in Targets(staff_data) :
             Grew(t) => /\ NewReview(t).rating \in 1 .. 5
                        /\ NewReview(t).rating = flow[last'.user].rating]_vars

\* a rate button pressed in the free-text phase, for another rating than the
\* pending one, changed nothing
C16_Witness ==
    /\ last.h = "unhandled"
    /\ IsRateToken(last.input)
    /\ fsm[last.user].state = "text"
    /\ fsm[last.user].data.rating # ParseRating(last.input)

CallbackHandlers ==
    {"back_to_main_menu", "show_top_staff", "select_category", "select_kitchen",
     "show_category", "show_staff", "show_workshop_reviews", "show_staff_reviews",
     "review_workshop_start", "review_staff_start", "review_rating"}

\* C15: no message that carries a photo is edited in place, and no edit
\* makes a photo message of a text message; staff detail is always a fresh
\* message after a delete (a photo message exactly when the record has a
\* photo); every other screen is edited only when the message it replaces
\* has no photo, and is otherwise deleted and sent again.
C15_RenderingDiscipline ==
    (last.h \in CallbackHandlers /\ last.screen # NoScreen) =>
        /\ last.mode \in {Edit, DeleteSend, DeleteSendPhoto}
        /\ last.mode = Edit => ~last.photo
        /\ last.photo => last.mode \in {DeleteSend, DeleteSendPhoto}
        /\ IF last.screen.kind = "staff_detail"
           THEN last.mode =
                   (IF get_photo_path(staff_data, ParseCategory(last.input), ParseStaffId(last.input))
                    THEN DeleteSendPhoto ELSE DeleteSend)
           ELSE last.mode # DeleteSendPhoto

\* the back button under a staff photo was pressed: the staff list replaced
\* the photo message by a delete and a send
C15_Witness ==
    /\ last.h = "show_category"
    /\ last.photo
    /\ last.screen.kind = "staff_list"
    /\ last.mode = DeleteSend

Holds(reviews, review) == \E i \in 1 .. Len(reviews) : reviews[i] = review

\* C17: however the submission handlers of two reviewers of one target
\* interleave at their awaits, once both have finished the target holds both
\* reviews, its rating is the rounded mean of all its reviews, and the file
\* holds both reviews.
C17_NoLostUpdate ==
    \A u, v \in Users :
        (/\ u # v
         /\ tasks[u].pc = "done"
         /\ tasks[v].pc = "done"
         /\ tasks[u].target = tasks[v].target)
        => LET t == tasks[u].target
           IN /\ Holds(ReviewsAt(staff_data, t), tasks[u].review)
              /\ Holds(ReviewsAt(staff_data, t), tasks[v].review)
              /\ IsRoundedMean(ObjAt(staff_data, t))
              /\ Len(ReviewsAt(staff_data, t)) >= 2
              /\ file.valid
              /\ Holds(ReviewsAt(LoadDocument(file.doc), t), tasks[u].review)
              /\ Holds(ReviewsAt(LoadDocument(file.doc), t), tasks[v].review)

\* both handlers finished after each had read its session before the other
\* touched the store
C17_Witness ==
    /\ tasks[1].pc = "done"
    /\ tasks[2].pc = "done"
    /\ tasks[1].target = tasks[2].target
    /\ tasks[1].seen = tasks[2].seen
    /\ tasks[1].review.rating # tasks[2].review.rating

ViewHandlers ==
    {"back_to_main_menu", "start", "start_pressed", "show_top_staff", "select_category",
     "select_kitchen", "show_category", "show_staff", "show_workshop_reviews",
     "show_staff_reviews", "fallback"}

SessionHandlers == {"review_workshop_start", "review_staff_start", "review_rating"}

\* C18 as stated: the navigation and viewing handlers and the fallback leave
\* the store, the file and every session unchanged; only the review-start
\* and rating-pick handlers change a session, and only the free-text
\* submission handler changes the store.
C18_OnlyStartAndRatingChangeSession ==
    [][now' = now =>
         /\ last'.h \in ViewHandlers => (staff_data' = staff_data /\ file' = file /\ fsm' = fsm)
         /\ fsm' # fsm => last'.h \in SessionHandlers
         /\ staff_data' # staff_data => last'.h = "review_text"]_vars

\* C18 as amended: the navigation and viewing handlers and the fallback
\* leave the store, the file and every session unchanged; only the
\* review-start and rating-pick handlers and the free-text submission
\* handler (which clears the session when it completes) change a session,
\* and only the free-text submission handler changes the store or the file.
C18_FrameOfHandlers ==
    [][now' = now =>
         /\ last'.h \in ViewHandlers => (staff_data' = staff_data /\ file' = file /\ fsm' = fsm)
         /\ fsm' # fsm => last'.h \in SessionHandlers \cup {"review_text"}
         /\ (fsm' # fsm /\ last'.h = "review_text") => fsm' = [fsm EXCEPT ![last'.user] = NoSession]
         /\ (staff_data' # staff_data \/ file' # file) => last'.h = "review_text"]_vars

\* a reviews list was shown to a reviewer in the free-text phase, whose
\* session is still there
C18_Witness ==
    /\ last.h = "show_staff_reviews"
    /\ last.outcome = Ok
    /\ fsm[last.user].state = "text"
    /\ "rating" \in DOMAIN fsm[last.user].data

\* the token of a staff button and what its handler decodes from it
StaffToken(prefix, x) == <<prefix>> \o x[1] \o x[2]

DecodesTo(tok, x) == ParseCategory(tok) = x[1] /\ ParseStaffId(tok) = x[2]

\* C19: for every category and every staff id of the store, each token a
\* keyboard emits is dispatched to the handler of the intended screen and
\* decoded to the category and staff id it was built from; workshop tokens
\* go to the workshop handlers and staff tokens to the staff handlers.
C19_TokensRoundTrip ==
    last.h \in CallbackHandlers \cup {"unhandled"} =>
        /\ \A x \in StaffTargets(staff_data) :
              /\ last.input = StaffToken("staff", x) => last.h = "show_staff"
              /\ last.input = StaffToken("reviews", x) => last.h = "show_staff_reviews"
              /\ last.input = StaffToken("review", x) => last.h = "review_staff_start"
              /\ last.input \in {StaffToken(p, x) : p \in {"staff", "reviews", "review"}}
                    => DecodesTo(last.input, x) /\ last.outcome # Raised
        /\ \A c \in Range(ALL_CATEGORIES) :
              last.input = <<"category">> \o c
                 => /\ last.h = "show_category"
                    /\ Replace(last.input, <<"category">>) = c
                    /\ last.outcome # Raised
        /\ \A c \in Range(KITCHEN_CATEGORIES) :
              /\ last.input = <<"reviews", "workshop">> \o c
                    => /\ last.h = "show_workshop_reviews"
                       /\ Replace(last.input, <<"reviews", "workshop">>) = c
                       /\ last.outcome # Raised
              /\ last.input = <<"review", "workshop">> \o c
                    => /\ last.h = "review_workshop_start"
                       /\ Replace(last.input, <<"review", "workshop">>) = c
                       /\ last.outcome # Raised

====
